---- MODULE Spec2Model ----
(***************************************************************************)
(* A model of the atomic_file crate: a directory of write-once version     *)
(* files `<prefix><N>`, published by hard-linking a temporary file, and    *)
(* the optimistic read-modify-write loops `modify` and `modify_json` built *)
(* on it, together with the two demonstration programs (bytes.rs, json.rs) *)
(* and a free client of the library.                                       *)
(*                                                                         *)
(* File names are sequences of one-character strings; file contents are    *)
(* sequences of tokens (strings).  Every system call of a thread is one    *)
(* step, so the threads interleave at system-call granularity.             *)
(***************************************************************************)
EXTENDS Integers, Sequences, FiniteSets, TLC

\* Number of threads each demonstration program spawns (`for i in 0..2`).
NumThreads == 2

\* ---------------------------------------------------------------- bounds
\* Calls of modify / modify_json the threads of the free client make in all.
MaxCalls == 3
\* The same, where system calls may fail.
MaxCallsIO == 2
\* Times a demonstration program is run in sequence on the same directory.
MaxRuns == 2

Threads == 0 .. (NumThreads - 1)

\* ------------------------------------------------------- text and numbers
Digit == <<"0", "1", "2", "3", "4", "5", "6", "7", "8", "9">>

IsDigit(c) == \E d \in 1..10 : Digit[d] = c

DigitVal(c) == (CHOOSE d \in 1..10 : Digit[d] = c) - 1

\* format!("{version}") / the decimal text serde_json writes for an integer.
RECURSIVE ToDec(_)
ToDec(n) == IF n < 10 THEN <<Digit[n + 1]>>
            ELSE ToDec(n \div 10) \o <<Digit[(n % 10) + 1]>>

RECURSIVE FromDec(_)
FromDec(s) == IF s = <<>> THEN 0
              ELSE 10 * FromDec(SubSeq(s, 1, Len(s) - 1)) + DigitVal(s[Len(s)])

AllDigits(s) == \A i \in 1..Len(s) : IsDigit(s[i])

\* The value of Option::None for an Option<usize>.
NoVersion == -1

\* str::parse::<usize>: an optional leading "+", then one or more digits
\* (leading zeros are accepted); anything else is an error.
parse_usize(s) ==
    LET t == IF s # <<>> /\ s[1] = "+" THEN Tail(s) ELSE s
    IN  IF t # <<>> /\ AllDigits(t) THEN FromDec(t) ELSE NoVersion

starts_with(s, p) == Len(s) >= Len(p) /\ SubSeq(s, 1, Len(p)) = p

\* A parse that cuts the prefix's length off the name without comparing it.
parse_version_unchecked(filename, prefix) ==
    IF Len(filename) < Len(prefix) THEN NoVersion
    ELSE parse_usize(SubSeq(filename, Len(prefix) + 1, Len(filename)))

parse_version(filename, prefix) ==
    IF ~starts_with(filename, prefix) THEN NoVersion
    ELSE parse_usize(SubSeq(filename, Len(prefix) + 1, Len(filename)))

Max(S) == CHOOSE m \in S : \A n \in S : n <= m

\* ------------------------------------------------------------- AtomicFile
\* AtomicFile::new: the prefix is the directory's file name followed by ".".
new(path) == [directory |-> path, prefix |-> path \o <<".">>]

BytesPath == <<"f", "i", "l", "e">>
JsonPath == <<"f", "i", "l", "e", ".", "j", "s", "o", "n">>

\* The directory each program opens.
StorePath(p) == IF p = "json" THEN JsonPath ELSE BytesPath

\* A latest_version that keeps the lowest version listed, not the highest.
latest_version_lowest(x, d) ==
    LET found == {parse_version(name, x.prefix) : name \in DOMAIN d} \ {NoVersion}
    IN  IF found = {} THEN 0 ELSE CHOOSE m \in found : \A n \in found : m <= n

\* AtomicFile::latest_version over the directory listing d (name -> inode).
latest_version(x, d) ==
    Max({0} \cup {parse_version(name, x.prefix) : name \in DOMAIN d})

\* A path that leaves the prefix out.
path_noprefix(x, version) == x.directory \o ToDec(version)

\* AtomicFile::path
path(x, version) == x.prefix \o ToDec(version)

\* AtomicFile::load
load(x, d) == LET version == latest_version(x, d)
              IN  [version |-> version, path |-> path(x, version)]

\* ------------------------------------------------------------ file system
\* The link count stat(2) reports for inode i.
nlink(d, i) == Cardinality({name \in DOMAIN d : d[name] = i})

\* mkstemp: a fresh inode number and a fresh six-character name without ".".
FreshIno(ino) == CHOOSE i \in 1..(Cardinality(DOMAIN ino) + 1) : i \notin DOMAIN ino

TmpName(i) == <<"t", "m", "p", "0", "0">> \o ToDec(i)

Remove(f, k) == [j \in (DOMAIN f) \ {k} |-> f[j]]

\* ---------------------------------------------------------- content codec
EmptyBytes == <<>>

\* Option<Foo>: None, or Some(Foo { count }).
NoneVal == [some |-> FALSE, count |-> 0]
SomeVal(n) == [some |-> TRUE, count |-> n]

\* serde_json::to_writer(&mut w, &val) for val : Option<Foo>.
to_writer(val) ==
    IF val.some THEN <<"{\"count\":">> \o ToDec(val.count) \o <<"}">>
    ELSE <<"null">>

\* serde_json::from_reader::<Foo>: the text must be exactly one object with
\* the field count and a JSON number (no leading zero, no trailing text).
from_reader(b) ==
    LET num == SubSeq(b, 2, Len(b) - 1)
    IN  IF /\ Len(b) >= 3
           /\ b[1] = "{\"count\":"
           /\ b[Len(b)] = "}"
           /\ AllDigits(num)
           /\ (Len(num) > 1 => num[1] # "0")
        THEN [ok |-> TRUE, value |-> FromDec(num)]
        ELSE [ok |-> FALSE, value |-> 0]

\* format!("thread{i}").as_bytes()
Marker(i) == <<"thread">> \o ToDec(i)

\* The closure bytes.rs passes to modify.
AppendMarker(i, data) == data \o Marker(i)

\* The closures handed to modify_json: "incr" is the one of json.rs; "keep"
\* is a closure that leaves the value as it found it.
JsonOps == {"incr", "keep"}

JsonOp(op, val) ==
    IF op = "incr"
    THEN IF val.some THEN SomeVal(val.count + 1) ELSE SomeVal(0)
    ELSE val

\* ------------------------------------------------------------------ state
VARIABLES
    prog,     \* which client runs: "bytes" (bytes.rs), "json" (json.rs), "api"
    file,     \* the AtomicFile { directory, prefix } shared by the threads
    dir,      \* the directory: file name -> inode number
    ino,      \* inode number -> [content, mode, synced, by]
    th,       \* per thread: position in modify / modify_json and its locals
              \* (stale is history: the snapshot was not the latest version
              \* when the thread's linkat ran)
    mainpc,   \* position of main() of a demonstration program
    runs,     \* how many times the program has been started
    base,     \* latest version and content when the threads were spawned
    checked,  \* outcome of main()'s final assert!: "none", "pass", "fail"
    okcas     \* history: the compare_and_swap calls that returned Ok(())

vars == <<prog, file, dir, ino, th, mainpc, runs, base, checked, okcas>>

NoSnapshot == [version |-> 0, path |-> <<>>]

IdleThread ==
    [pc |-> "idle", kind |-> "none", marker |-> 0, op |-> "none", n |-> 0,
     latest |-> NoSnapshot, fd |-> 0, buf |-> EmptyBytes, val |-> NoneVal,
     data |-> EmptyBytes, tmp |-> 0, res |-> "none", out |-> "none",
     ret |-> "none", stale |-> FALSE, seen |-> 0]

\* The content of the latest version in directory d ("" when there is none).
LatestContent(x, d, i) ==
    LET l == load(x, d)
    IN  IF l.version # 0 /\ l.path \in DOMAIN d THEN i[d[l.path]].content
        ELSE EmptyBytes

InitOf(p) ==
    /\ prog = p
    /\ file = new(StorePath(prog))
    /\ dir = <<>>
    /\ ino = <<>>
    /\ th = [w \in Threads |-> IdleThread]
    /\ mainpc = IF prog = "api" THEN "api" ELSE "start"
    /\ runs = 0
    /\ base = [version |-> 0, data |-> EmptyBytes]
    /\ checked = "none"
    /\ okcas = {}

\* ------------------------------------------------- entering the update loop
Entered(t, kind, marker, op) ==
    [IdleThread EXCEPT !.pc = "load", !.kind = kind, !.marker = marker,
                       !.op = op, !.n = t.n + 1, !.seen = t.seen]

\* The calls made so far by the threads in S.
RECURSIVE Calls(_, _)
Calls(t, S) == IF S = {} THEN 0
               ELSE LET w == CHOOSE w \in S : TRUE
                    IN  t[w].n + Calls(t, S \ {w})

\* A client thread calls modify(&file, |data| data ++ "thread{w}").
CallModify(w, max) ==
    /\ prog = "api"
    /\ th[w].pc = "idle"
    /\ Calls(th, Threads) < max
    /\ th' = [th EXCEPT ![w] = Entered(th[w], "modify", w, "none")]
    /\ UNCHANGED <<prog, file, dir, ino, mainpc, runs, base, checked, okcas>>

\* A client thread calls modify_json(&file, op).
CallModifyJson(w, op, max) ==
    /\ prog = "api"
    /\ th[w].pc = "idle"
    /\ Calls(th, Threads) < max
    /\ th' = [th EXCEPT ![w] = Entered(th[w], "modify_json", w, op)]
    /\ UNCHANGED <<prog, file, dir, ino, mainpc, runs, base, checked, okcas>>

\* main() of bytes.rs / json.rs spawns its threads.
Spawn ==
    /\ mainpc = "start"
    /\ th' = [w \in Threads |->
                IF prog = "bytes" THEN Entered(th[w], "modify", w, "none")
                ELSE Entered(th[w], "modify_json", w, "incr")]
    /\ mainpc' = "join"
    /\ runs' = runs + 1
    /\ base' = [version |-> latest_version(file, dir),
                data |-> LatestContent(file, dir, ino)]
    /\ checked' = "none"
    /\ UNCHANGED <<prog, file, dir, ino, okcas>>

\* --------------------------------------------------- the loop, step by step
\* The value a call returns to its caller.
Returned(t, result) ==
    [t EXCEPT !.pc = "idle", !.ret = result, !.out = "none", !.res = "none",
              !.fd = 0, !.buf = EmptyBytes, !.val = NoneVal,
              !.data = EmptyBytes, !.tmp = 0, !.stale = FALSE]

\* `let latest = x.load()?;` (and `buf.clear()` / `let mut val = None`).
Load(w) ==
    /\ th[w].pc = "load"
    /\ th' = [th EXCEPT ![w].pc = "open", ![w].latest = load(file, dir),
                        ![w].buf = EmptyBytes, ![w].val = NoneVal,
                        ![w].data = EmptyBytes, ![w].tmp = 0,
                        ![w].res = "none", ![w].out = "none",
                        ![w].stale = FALSE,
                        ![w].seen = load(file, dir).version]
    /\ UNCHANGED <<prog, file, dir, ino, mainpc, runs, base, checked, okcas>>

\* ReadOnlyFile::open: None for version 0, else File::open(&self.path).
Open(w) ==
    /\ th[w].pc = "open"
    /\ th' = [th EXCEPT ![w] =
                IF th[w].latest.version = 0 THEN [@ EXCEPT !.pc = "op"]
                ELSE IF th[w].latest.path \in DOMAIN dir
                     THEN [@ EXCEPT !.pc = "read", !.fd = dir[th[w].latest.path]]
                     ELSE Returned(@, "Other")]
    /\ UNCHANGED <<prog, file, dir, ino, mainpc, runs, base, checked, okcas>>

\* `file.read_to_end(&mut buf)?` / `serde_json::from_reader(..)?`.
Read(w) ==
    /\ th[w].pc = "read"
    /\ LET bytes == ino[th[w].fd].content
           dec == from_reader(bytes)
       IN  th' = [th EXCEPT ![w] =
                    IF th[w].kind = "modify"
                    THEN [@ EXCEPT !.pc = "op", !.buf = bytes, !.fd = 0]
                    ELSE IF dec.ok
                         THEN [@ EXCEPT !.pc = "op", !.val = SomeVal(dec.value),
                                        !.fd = 0]
                         ELSE Returned(@, "Decode")]
    /\ UNCHANGED <<prog, file, dir, ino, mainpc, runs, base, checked, okcas>>

\* `let data = op(&buf);` / `op(&mut val);`.
Op(w) ==
    /\ th[w].pc = "op"
    /\ th' = [th EXCEPT ![w] =
                IF th[w].kind = "modify"
                THEN [@ EXCEPT !.pc = "make_temp",
                               !.data = AppendMarker(th[w].marker, th[w].buf)]
                ELSE [@ EXCEPT !.pc = "make_temp",
                               !.val = JsonOp(th[w].op, th[w].val)]]
    /\ UNCHANGED <<prog, file, dir, ino, mainpc, runs, base, checked, okcas>>

\* TmpFile::create_in: mkstemp makes an empty file, mode 0600, one name.
create_in(d, i, w) ==
    LET n == FreshIno(i)
    IN  [dir |-> d @@ (TmpName(n) :> n),
         ino |-> i @@ (n :> [content |-> EmptyBytes, mode |-> "0600",
                             synced |-> FALSE,
                             by |-> [w |-> w, n |-> th[w].n, kind |-> th[w].kind,
                                     marker |-> th[w].marker, op |-> th[w].op]]),
         tmp |-> n]

\* `let tmp = x.make_temp()?;`
MakeTemp(w) ==
    /\ th[w].pc = "make_temp"
    /\ LET r == create_in(dir, ino, w)
       IN  /\ dir' = r.dir
           /\ ino' = r.ino
           /\ th' = [th EXCEPT ![w].pc = "write", ![w].tmp = r.tmp]
    /\ UNCHANGED <<prog, file, mainpc, runs, base, checked, okcas>>

\* The bytes a call writes to its temporary file.
Candidate(t) == IF t.kind = "modify" THEN t.data ELSE to_writer(t.val)

\* A single write(2) that takes one chunk of what is left and stops.
write_once(written, buf) ==
    written \o SubSeq(buf, Len(written) + 1, Len(written) + 1)

\* write_all: writes what is left of buf after the part already written.
write_all(written, buf) ==
    written \o SubSeq(buf, Len(written) + 1, Len(buf))

\* `(&tmp).write_all(&data)?; (&tmp).flush()?;` /
\* `serde_json::to_writer(&mut w, &val)?; w.flush()?;`
Write(w) ==
    /\ th[w].pc = "write"
    /\ ino' = [ino EXCEPT ![th[w].tmp].content = write_all(@, Candidate(th[w]))]
    /\ th' = [th EXCEPT ![w].pc = "sync"]
    /\ UNCHANGED <<prog, file, dir, mainpc, runs, base, checked, okcas>>

\* write_all in the middle of its work: the first write(2) took only a proper
\* part of the buffer, which other threads can see in the temporary file.
WritePart(w) ==
    /\ th[w].pc = "write"
    /\ ino[th[w].tmp].content = EmptyBytes
    /\ \E k \in 1..(Len(Candidate(th[w])) - 1) :
          ino' = [ino EXCEPT ![th[w].tmp].content = SubSeq(Candidate(th[w]), 1, k)]
    /\ UNCHANGED <<prog, file, dir, th, mainpc, runs, base, checked, okcas>>

\* compare_and_swap: `(&new.file).sync_data()?;`
Sync(w) ==
    /\ th[w].pc = "sync"
    /\ ino' = [ino EXCEPT ![th[w].tmp].synced = TRUE]
    /\ th' = [th EXCEPT ![w].pc = "link"]
    /\ UNCHANGED <<prog, file, dir, mainpc, runs, base, checked, okcas>>

\* A link that replaces an existing dst, as rename(2) does.
linkat_replace(d, src, dst) ==
    {[dir |-> [n \in DOMAIN d \cup {dst} |-> IF n = dst THEN d[src] ELSE d[n]],
      res |-> "ok"]}

\* linkat(src, dst): what the directory becomes and what the call reports.
\* An existing dst is never replaced (EEXIST).  Otherwise dst is created; on
\* a file system whose link is not atomic the call may still report EEXIST.
linkat(d, src, dst) ==
    IF dst \in DOMAIN d
    THEN {[dir |-> d, res |-> "AlreadyExists"]}
    ELSE {[dir |-> d @@ (dst :> d[src]), res |-> r] : r \in {"ok", "AlreadyExists"}}

\* compare_and_swap: the linkat call to self.path(current.version + 1).
Link(w) ==
    /\ th[w].pc = "link"
    /\ \E r \in linkat(dir, TmpName(th[w].tmp), path(file, th[w].latest.version + 1)) :
          /\ dir' = r.dir
          /\ th' = [th EXCEPT ![w].res = r.res,
                              ![w].stale = th[w].latest.version < latest_version(file, dir),
                              ![w].pc = IF r.res = "ok" THEN "chmod" ELSE "stat"]
    /\ UNCHANGED <<prog, file, ino, mainpc, runs, base, checked, okcas>>

\* No link-count test: a link that reports an error has failed.
LinkFailed_always(d, t) == TRUE

\* The link-count test with its sense inverted.
LinkFailed_inverted(d, t) == nlink(d, t.tmp) = 2

\* `if new.path.metadata()?.nlink() != 2 { Err(err)?; }`
LinkFailed(d, t) == nlink(d, t.tmp) # 2

Stat(w) ==
    /\ th[w].pc = "stat"
    /\ th' = [th EXCEPT ![w] =
                IF LinkFailed(dir, th[w])
                THEN [@ EXCEPT !.pc = "drop", !.out = th[w].res]
                ELSE [@ EXCEPT !.pc = "chmod"]]
    /\ UNCHANGED <<prog, file, dir, ino, mainpc, runs, base, checked, okcas>>

\* `let _ = fs::set_permissions(new_path, Permissions::from_mode(0o644)); Ok(())`
Chmod(w) ==
    /\ th[w].pc = "chmod"
    /\ LET new_path == path(file, th[w].latest.version + 1)
       IN  ino' = IF new_path \in DOMAIN dir
                  THEN [ino EXCEPT ![dir[new_path]].mode = "0644"]
                  ELSE ino
    /\ th' = [th EXCEPT ![w].pc = "drop", ![w].out = "Ok"]
    /\ UNCHANGED <<prog, file, dir, mainpc, runs, base, checked, okcas>>

\* A loop that on AlreadyExists tries the same snapshot again with a new
\* temporary file, without loading the latest version first.
Match_noreload(t) ==
    IF t.out = "AlreadyExists" THEN [t EXCEPT !.pc = "make_temp", !.tmp = 0, !.stale = FALSE]
    ELSE Returned(t, t.out)

\* A loop that returns Ok(()) on AlreadyExists instead of starting over.
Match_noretry(t) ==
    Returned(t, IF t.out = "AlreadyExists" THEN "Ok" ELSE t.out)

\* What modify / modify_json do with the result of compare_and_swap:
\* return Ok, start over on AlreadyExists, return any other error.
Match(t) ==
    IF t.out = "AlreadyExists" THEN [t EXCEPT !.pc = "load", !.tmp = 0, !.stale = FALSE]
    ELSE Returned(t, t.out)

\* TmpFile::drop (`let _ = fs::remove_file(&self.path)`) as the temporary
\* handle goes out of scope, then the caller's match on the result.
Drop(w) ==
    /\ th[w].pc = "drop"
    /\ LET d == Remove(dir, TmpName(th[w].tmp))
       IN  /\ dir' = d
           /\ ino' = IF nlink(d, th[w].tmp) = 0 THEN Remove(ino, th[w].tmp) ELSE ino
    /\ th' = [th EXCEPT ![w] = Match(th[w])]
    /\ okcas' = IF th[w].out = "Ok"
                THEN okcas \cup {[w |-> w, n |-> th[w].n,
                                  from |-> th[w].latest.version, ino |-> th[w].tmp]}
                ELSE okcas
    /\ UNCHANGED <<prog, file, mainpc, runs, base, checked>>

\* ---------------------------------------------------- main() after spawning
\* `for h in handles { h.join().unwrap()?; }`
Join ==
    /\ mainpc = "join"
    /\ \A w \in Threads : th[w].pc = "idle"
    /\ mainpc' = IF \A w \in Threads : th[w].ret = "Ok" THEN "check" ELSE "exit"
    /\ UNCHANGED <<prog, file, dir, ino, th, runs, base, checked, okcas>>

ends_with(s, suffix) ==
    Len(s) >= Len(suffix) /\ SubSeq(s, Len(s) - Len(suffix) + 1, Len(s)) = suffix

\* The condition of the final assert! of each program, on the text read back.
AssertHolds(p, text) ==
    IF p = "bytes"
    THEN \/ ends_with(text, Marker(0) \o Marker(1))
         \/ ends_with(text, Marker(1) \o Marker(0))
    ELSE from_reader(text).ok /\ from_reader(text).value % 2 = 1

\* `file.load()?.open()?.unwrap().read_to_string(&mut data)?; assert!(..)`
MainCheck ==
    /\ mainpc = "check"
    /\ checked' = IF AssertHolds(prog, LatestContent(file, dir, ino))
                  THEN "pass" ELSE "fail"
    /\ mainpc' = "exit"
    /\ UNCHANGED <<prog, file, dir, ino, th, runs, base, okcas>>

\* The program is started again on the directory it left behind.
Restart ==
    /\ mainpc = "exit"
    /\ runs < MaxRuns
    /\ mainpc' = "start"
    /\ UNCHANGED <<prog, file, dir, ino, th, runs, base, checked, okcas>>

\* --------------------------------------------------------------- I/O errors
\* The system calls of the loop that are followed by `?`.
Fallible == {"load", "open", "read", "make_temp", "write", "sync", "link", "stat"}

\* An error at the link or at the link-count test that returns without
\* releasing the temporary file.
HoldsTmp_untilSync == {"write", "sync"}

\* The positions at which the thread owns a TmpFile.
HoldsTmp == {"write", "sync", "link", "stat"}

\* A system call fails with an error that is not EEXIST: the call returns
\* it, after dropping the temporary file when it has one.
IOFail(w) ==
    /\ th[w].pc \in Fallible
    /\ th[w].pc = "open" => th[w].latest.version # 0
    /\ th' = [th EXCEPT ![w] =
                IF th[w].pc \in HoldsTmp
                THEN [@ EXCEPT !.pc = "drop", !.out = "Other"]
                ELSE Returned(@, "Other")]
    /\ UNCHANGED <<prog, file, dir, ino, mainpc, runs, base, checked, okcas>>

\* ---------------------------------------------------------- specifications
\* One step of modify / modify_json by thread w.
Loop(w) ==
    \/ Load(w)
    \/ Open(w)
    \/ Read(w)
    \/ Op(w)
    \/ MakeTemp(w)
    \/ Write(w)
    \/ Sync(w)
    \/ Link(w)
    \/ Stat(w)
    \/ Chmod(w)
    \/ Drop(w)

\* Threads of a client that calls modify and modify_json freely.
Init == InitOf("api")

Next ==
    \E w \in Threads :
        \/ CallModify(w, MaxCalls)
        \/ \E op \in JsonOps : CallModifyJson(w, op, MaxCalls)
        \/ Loop(w)

Spec == Init /\ [][Next]_vars

\* The same client, where any fallible system call may also fail.
NextIO ==
    \E w \in Threads :
        \/ CallModify(w, MaxCallsIO)
        \/ \E op \in JsonOps : CallModifyJson(w, op, MaxCallsIO)
        \/ Loop(w)
        \/ IOFail(w)

SpecIO == Init /\ [][NextIO]_vars

\* A demonstration program: main() spawns the threads, joins them, reads the
\* latest version back and asserts; the program may then be run again.
NextMain ==
    \/ \E w \in Threads : Loop(w)
    \/ Spawn
    \/ Join
    \/ MainCheck
    \/ Restart

\* bytes.rs
InitBytes == InitOf("bytes")

SpecBytes == InitBytes /\ [][NextMain]_vars

\* json.rs
InitJson == InitOf("json")

SpecJson == InitJson /\ [][NextMain]_vars

\* Either demonstration program, where the scheduler lets every thread that
\* is inside modify / modify_json take its next step eventually.
SpecFair ==
    /\ InitBytes \/ InitJson
    /\ [][NextMain]_vars
    /\ \A w \in Threads : WF_vars(Loop(w))

\* The free client, where the bytes of a temporary file arrive in two parts.
NextTorn ==
    \E w \in Threads :
        \/ CallModify(w, MaxCalls)
        \/ \E op \in JsonOps : CallModifyJson(w, op, MaxCalls)
        \/ Loop(w)
        \/ WritePart(w)

SpecTorn == Init /\ [][NextTorn]_vars

\* A store directory that other programs and interrupted runs have left
\* entries in: a name with another prefix, the prefix without its separator,
\* the prefix followed by a letter, by a digit and a letter, by nothing, and a
\* temporary file of a process that was killed.
StrayNames ==
    << <<"o">> \o Tail(new(BytesPath).prefix) \o <<"9">>,
       BytesPath \o <<"9">>,
       new(BytesPath).prefix \o <<"b">>,
       new(BytesPath).prefix \o <<"9", "b">>,
       new(BytesPath).prefix,
       TmpName(6) >>

\* The directory starts empty, with one stray entry, or with all of them.
StraySets ==
    {{}, DOMAIN StrayNames} \cup {{k} : k \in DOMAIN StrayNames}

StrayFile ==
    [content |-> <<"stray">>, mode |-> "0600", synced |-> TRUE,
     by |-> [w |-> -1, n |-> 0, kind |-> "stray", marker |-> 0, op |-> "none"]]

InitStray ==
    /\ prog = "api"
    /\ file = new(StorePath(prog))
    /\ \E K \in StraySets :
          /\ dir = [name \in {StrayNames[k] : k \in K} |->
                        CHOOSE k \in K : StrayNames[k] = name]
          /\ ino = [k \in K |-> StrayFile]
    /\ th = [w \in Threads |-> IdleThread]
    /\ mainpc = "api"
    /\ runs = 0
    /\ base = [version |-> 0, data |-> EmptyBytes]
    /\ checked = "none"
    /\ okcas = {}

\* The free client without system-call failures, making fewer calls.
NextSmall ==
    \E w \in Threads :
        \/ CallModify(w, MaxCallsIO)
        \/ \E op \in JsonOps : CallModifyJson(w, op, MaxCallsIO)
        \/ Loop(w)

SpecStray == InitStray /\ [][NextSmall]_vars

\* ------------------------------------------------------------- properties
\* The version numbers that have a file in the directory.
Versions == {v \in 1..latest_version(file, dir) : path(file, v) \in DOMAIN dir}

\* The inode published as version v.
VersionFile(v) == ino[dir[path(file, v)]]

\* Thread w's compare_and_swap has decided to return Ok(()).
Succeeded(w) ==
    \/ th[w].pc = "chmod"
    \/ th[w].pc = "drop" /\ th[w].out = "Ok"
    \/ th[w].pc = "idle" /\ th[w].ret = "Ok"

\* C1: total order of updates.  Every compare_and_swap call that returned
\* Ok(()) has its temporary file linked under the version after its
\* snapshot's, under no other version, and no two such calls have the same
\* target version.
C1_TotalOrder ==
    \A a \in okcas :
        /\ {v \in Versions : dir[path(file, v)] = a.ino} = {a.from + 1}
        /\ VersionFile(a.from + 1).by.w = a.w
        /\ VersionFile(a.from + 1).by.n = a.n
        /\ \A b \in okcas : b.from = a.from => b = a

\* Two different threads have published and a third call has just lost the
\* race for a version.
C1_Witness ==
    /\ \E a, b \in okcas : a.w # b.w
    /\ \E w \in Threads : th[w].pc = "drop" /\ th[w].out = "AlreadyExists"

\* The version files: their names, and the bytes behind each name.
Published(d, i) ==
    [name \in {path(file, v) : v \in 1..latest_version(file, d)} \cap DOMAIN d
        |-> i[d[name]].content]

\* C2: a compare_and_swap whose snapshot is older than the highest version
\* present when its linkat runs gets EEXIST without creating or changing any
\* version file, then fails the link-count test with AlreadyExists, returns
\* that error (the loop starts over, nothing is recorded as a success), and
\* none of these steps changes the name or bytes of a published version.
C2_StaleConflict ==
    [][\A w \in Threads :
         /\ ( /\ th[w].pc = "link"
              /\ th[w].latest.version < latest_version(file, dir)
              /\ th'[w] # th[w] )
            => /\ th'[w].pc = "stat"
               /\ th'[w].res = "AlreadyExists"
               /\ th'[w].stale
               /\ dir' = dir
               /\ ino' = ino
         /\ (th[w].stale /\ th[w].pc = "stat" /\ th'[w] # th[w])
            => /\ th'[w].pc = "drop"
               /\ th'[w].out = "AlreadyExists"
               /\ th'[w].stale
               /\ Published(dir', ino') = Published(dir, ino)
         /\ (th[w].stale /\ th[w].pc = "drop" /\ th'[w] # th[w])
            => /\ th'[w].pc = "load"
               /\ okcas' = okcas
               /\ Published(dir', ino') = Published(dir, ino)
      ]_vars

\* A compare_and_swap whose snapshot was two or more versions behind is
\* returning AlreadyExists.
C2_Witness ==
    \E w \in Threads :
        /\ th[w].stale
        /\ th[w].pc = "drop"
        /\ th[w].out = "AlreadyExists"
        /\ th[w].latest.version + 2 <= latest_version(file, dir)

\* C3 as stated: whenever a thread's compare_and_swap from a snapshot of
\* version K has returned Ok(()), load() gives version exactly K + 1.
C3_LoadExactlyNext ==
    \A w \in Threads :
        (th[w].pc = "idle" /\ th[w].ret = "Ok")
            => load(file, dir).version = th[w].latest.version + 1

\* C3 amended: once a compare_and_swap from a snapshot of version K succeeds,
\* load() gives a version of at least K + 1 whose file exists, and exactly
\* K + 1 at the moment the link to version K + 1 is made.
C3_LoadAtLeastNext ==
    /\ [](\A w \in Threads :
            Succeeded(w) => /\ load(file, dir).version >= th[w].latest.version + 1
                            /\ load(file, dir).path \in DOMAIN dir)
    /\ [][\A w \in Threads :
            (th[w].pc = "link" /\ th'[w] # th[w] /\ dir' # dir)
                => load(file, dir').version = th[w].latest.version + 1]_vars

\* A thread's compare_and_swap from version 1 has returned Ok(()) and version
\* 2 is what load() gives.
C3_Witness ==
    \E w \in Threads :
        /\ th[w].pc = "idle"
        /\ th[w].ret = "Ok"
        /\ th[w].latest.version = 1
        /\ load(file, dir).version = 2

\* What a reader gets from load() then open() and reading to the end.
Content == LatestContent(file, dir, ino)

\* How many times the token sequence m occurs in s.
Count(m, s) ==
    Cardinality({i \in 1..(Len(s) - Len(m) + 1) : SubSeq(s, i, i + Len(m) - 1) = m})

\* C4: no lost update.  When the NumThreads concurrent modify calls of
\* bytes.rs, each appending its own marker, have all returned Ok(()), the
\* latest content holds each marker once more than the content the batch
\* started from and nothing else new, and the latest version is the version
\* the batch started from plus NumThreads.
C4_NoLostUpdate ==
    mainpc = "check" =>
        /\ \A w \in Threads :
               Count(Marker(w), Content) = Count(Marker(w), base.data) + 1
        /\ Len(Content) = Len(base.data) + NumThreads * Len(Marker(0))
        /\ latest_version(file, dir) = base.version + NumThreads

\* A second batch has completed on top of the versions the first one left.
C4_Witness ==
    /\ mainpc = "check"
    /\ base.version = NumThreads
    /\ latest_version(file, dir) = 2 * NumThreads

\* The bytes version v was computed from: those of version v - 1, or the
\* empty input when v = 1.
Predecessor(v) == IF v = 1 THEN EmptyBytes ELSE VersionFile(v - 1).content

\* The transform of the call that created an inode, applied to the complete
\* bytes of the version before v.
TransformOf(by, v) ==
    IF by.kind = "modify"
    THEN AppendMarker(by.marker, Predecessor(v))
    ELSE to_writer(JsonOp(by.op,
                          IF v = 1 THEN NoneVal
                          ELSE SomeVal(from_reader(Predecessor(v)).value)))

\* C5: every version has a consistent predecessor.  For every version v up to
\* the latest, the file of v exists and its bytes are the transform of the
\* call that published it applied to the complete bytes of version v - 1
\* (which a modify_json call was able to decode).
C5_ConsistentPredecessor ==
    \A v \in 1..latest_version(file, dir) :
        /\ path(file, v) \in DOMAIN dir
        /\ (VersionFile(v).by.kind = "modify_json" /\ v > 1)
               => from_reader(Predecessor(v)).ok
        /\ VersionFile(v).content = TransformOf(VersionFile(v).by, v)

\* A modify_json call incremented the counter another thread had published.
C5_Witness ==
    \E v \in Versions :
        /\ v >= 2
        /\ VersionFile(v).by.kind = "modify_json"
        /\ VersionFile(v).by.op = "incr"
        /\ VersionFile(v - 1).by.w # VersionFile(v).by.w
        /\ VersionFile(v).content = to_writer(SomeVal(1))

\* C6: when the two modify calls of bytes.rs have returned, the latest
\* content is the content the batch started from followed by "thread0thread1"
\* or by "thread1thread0"; on an empty directory it is exactly one of the two;
\* and the program's final assert! never fails.
C6_TwoMarkers ==
    /\ mainpc = "check" =>
          /\ \/ Content = base.data \o Marker(0) \o Marker(1)
             \/ Content = base.data \o Marker(1) \o Marker(0)
          /\ base.version = 0 =>
                 Content \in {Marker(0) \o Marker(1), Marker(1) \o Marker(0)}
    /\ checked # "fail"

\* On an empty directory thread 1 published first, thread 0 second.
C6_Witness ==
    /\ mainpc = "check"
    /\ base.version = 0
    /\ Content = Marker(1) \o Marker(0)

\* The counter a reader decodes from the latest version.
Decoded == from_reader(Content)

\* C7 as stated: after the two modify_json calls of json.rs on an empty
\* directory have returned, the decoded counter is exactly 2.
C7_CounterIsTwo ==
    (mainpc = "check" /\ base.version = 0) => (Decoded.ok /\ Decoded.value = 2)

\* C7 amended: after the two modify_json calls of json.rs on an empty
\* directory have returned, the decoded counter is exactly 1 (the first
\* update creates the counter with count 0, the second increments it).
C7_CounterIsOne ==
    (mainpc = "check" /\ base.version = 0) => (Decoded.ok /\ Decoded.value = 1)

\* Both calls have returned on an empty directory, thread 1's update first.
C7_Witness ==
    /\ mainpc = "check"
    /\ base.version = 0
    /\ VersionFile(1).by.w = 1
    /\ VersionFile(2).by.w = 0

\* C8: with the closure of json.rs, from an empty directory, whenever no call
\* is in progress and M >= 1 compare_and_swap calls have succeeded in all,
\* the decoded count is M - 1; after each run of the two-thread program it is
\* odd, and the program's final assert! never fails.
C8_CountIsCallsMinusOne ==
    /\ ((\A w \in Threads : th[w].pc = "idle") /\ okcas # {})
           => (Decoded.ok /\ Decoded.value = Cardinality(okcas) - 1)
    /\ mainpc \in {"check", "exit"} => (Decoded.ok /\ Decoded.value % 2 = 1)
    /\ checked # "fail"

\* The program has run twice and its second assert! passed on count 3.
C8_Witness ==
    /\ mainpc = "exit"
    /\ checked = "pass"
    /\ runs = 2
    /\ Decoded.value = 2 * NumThreads - 1

\* C9: round trip of a structured value.  When a modify_json call has
\* published the value V and nothing was published since, decoding the latest
\* version as the next attempt does (Some(from_reader(..)?)) succeeds and
\* yields V.
C9_RoundTrip ==
    \A w \in Threads :
        ( /\ th[w].kind = "modify_json"
          /\ th[w].pc = "drop"
          /\ th[w].out = "Ok"
          /\ load(file, dir).version = th[w].latest.version + 1 )
        => (Decoded.ok /\ SomeVal(Decoded.value) = th[w].val)

\* C10: error propagation of the update loop.  A call that returned an error
\* did not return AlreadyExists, and no version file was published by it.
C10_ErrorPropagation ==
    \A w \in Threads :
        (th[w].pc = "idle" /\ th[w].ret \notin {"none", "Ok"})
        => /\ th[w].ret # "AlreadyExists"
           /\ \A v \in Versions :
                  ~(VersionFile(v).by.w = w /\ VersionFile(v).by.n = th[w].n)

\* C11: version files are write-once.  No step of any thread (load, make_temp,
\* a successful or conflicting compare_and_swap, the drop of a temporary file,
\* a whole attempt of the update loop) removes a version file's name, points
\* it at another file, or changes the bytes behind it.
C11_WriteOnce ==
    [][\A name \in DOMAIN Published(dir, ino) :
          /\ name \in DOMAIN dir'
          /\ dir'[name] = dir[name]
          /\ ino'[dir[name]].content = ino[dir[name]].content
      ]_vars

\* A version whose temporary name is gone has just been the target of another
\* call's compare_and_swap, which lost.
C11_Witness ==
    \E w \in Threads :
        /\ th[w].pc = "drop"
        /\ th[w].out = "AlreadyExists"
        /\ path(file, th[w].latest.version + 1) \in DOMAIN dir
        /\ nlink(dir, dir[path(file, th[w].latest.version + 1)]) = 1
        /\ VersionFile(th[w].latest.version + 1).mode = "0644"

\* A name the store does not own as a version file: one of the stray names,
\* or the name of a temporary file.
Unrelated(name) ==
    \/ \E k \in DOMAIN StrayNames : StrayNames[k] = name
    \/ \E i \in DOMAIN ino : name = TmpName(i)

\* C12: unrelated entries never affect load().  With entries in the directory
\* that lack the prefix, or have the prefix followed by a suffix that is not
\* an integer, or are live or orphaned temporary files, load() returns the
\* version and path it returns on the directory without them, and a returned
\* version N >= 1 names an existing file that a call of the store published
\* as version N.
C12_UnrelatedIgnored ==
    LET clean == [name \in {n \in DOMAIN dir : ~Unrelated(n)} |-> dir[name]]
        l == load(file, dir)
    IN  /\ l = load(file, clean)
        /\ l.version >= 1
             => /\ l.path \in DOMAIN dir
                /\ ~Unrelated(l.path)
                /\ ino[dir[l.path]].by.kind \in {"modify", "modify_json"}
                /\ parse_version(l.path, file.prefix) = l.version

\* Every stray entry is present next to a version and a live temporary file.
C12_Witness ==
    /\ \A k \in DOMAIN StrayNames : StrayNames[k] \in DOMAIN dir
    /\ load(file, dir).version = 1
    /\ \E w \in Threads : th[w].pc = "link" /\ TmpName(th[w].tmp) \in DOMAIN dir

\* The temporary names in the directory.
TempNames == {name \in DOMAIN dir : name = TmpName(dir[name])}

\* C13: temporary-handle cleanup.  A temporary name in the directory belongs
\* to an attempt that is still between make_temp and its drop, so none is left
\* by an attempt that ended in success, in AlreadyExists or in an error; and
\* the drop of a handle removes its own name only: every other name of its
\* inode, and every version file with its bytes, is still there afterwards.
C13_TempCleanup ==
    /\ [](\A name \in TempNames :
             LET by == ino[dir[name]].by
             IN  /\ th[by.w].n = by.n
                 /\ th[by.w].tmp = dir[name]
                 /\ th[by.w].pc \in {"write", "sync", "link", "stat", "chmod", "drop"})
    /\ [][\A w \in Threads :
            (th[w].pc = "drop" /\ th'[w] # th[w])
            => /\ TmpName(th[w].tmp) \notin DOMAIN dir'
               /\ Published(dir', ino') = Published(dir, ino)
               /\ \A name \in DOMAIN dir \ {TmpName(th[w].tmp)} :
                      /\ name \in DOMAIN dir'
                      /\ dir'[name] = dir[name]
                      /\ dir[name] \in DOMAIN ino'
                      /\ ino'[dir[name]].content = ino[dir[name]].content
      ]_vars

\* A call has returned an I/O error after its link took effect: its temporary
\* name is gone and the version it linked is still there, with one name, next
\* to a call that returned Ok.
C13_Witness ==
    /\ TempNames = {}
    /\ \E w \in Threads :
          /\ th[w].pc = "idle"
          /\ th[w].ret = "Other"
          /\ \E v \in Versions :
                /\ VersionFile(v).by.w = w
                /\ VersionFile(v).by.n = th[w].n
                /\ nlink(dir, dir[path(file, v)]) = 1
                /\ VersionFile(v).content = TransformOf(VersionFile(v).by, v)
    /\ \E w \in Threads : th[w].pc = "idle" /\ th[w].ret = "Ok"

\* Thread w's temporary file is linked under the version after its snapshot's.
Linked(w) ==
    LET new_path == path(file, th[w].latest.version + 1)
    IN  new_path \in DOMAIN dir /\ dir[new_path] = th[w].tmp

\* C14: link-count disambiguation.  Where a link may take effect and still
\* report "already exists", a compare_and_swap that has decided its result
\* returns Ok or AlreadyExists; after a link that reported failure it returns
\* Ok exactly when the temporary file's link count is 2; in all cases it
\* returns Ok exactly when its inode is linked under <prefix>(snapshot + 1);
\* and no other call, returned or returning, succeeded from the same snapshot
\* version.
C14_LinkCountDecides ==
    \A w \in Threads :
        th[w].pc = "drop"
        => /\ th[w].out \in {"Ok", "AlreadyExists"}
           /\ th[w].res = "AlreadyExists"
                => (th[w].out = "Ok" <=> nlink(dir, th[w].tmp) = 2)
           /\ th[w].out = "Ok" <=> Linked(w)
           /\ th[w].out = "Ok"
                => /\ \A a \in okcas : a.from # th[w].latest.version
                   /\ \A u \in Threads \ {w} :
                          (Succeeded(u) /\ th[u].pc # "idle")
                          => th[u].latest.version # th[w].latest.version

\* A link that reported "already exists" had taken effect and its call returns
\* Ok, while another call that raced for the same version returns
\* AlreadyExists with a link count of 1.
C14_Witness ==
    \E w, u \in Threads :
        /\ th[w].pc = "drop" /\ th[u].pc = "drop"
        /\ th[w].latest.version = th[u].latest.version
        /\ th[w].res = "AlreadyExists" /\ th[w].out = "Ok" /\ Linked(w)
        /\ th[u].res = "AlreadyExists" /\ th[u].out = "AlreadyExists"
        /\ nlink(dir, th[u].tmp) = 1

\* C15: eventual success under contention.  When the NumThreads writers of a
\* demonstration program each make one modify (bytes.rs) or modify_json
\* (json.rs) call concurrently, no system call fails and every thread keeps
\* being scheduled, every call that is in its loop eventually returns Ok(()).
C15_EventualSuccess ==
    \A w \in Threads :
        (th[w].pc # "idle") ~> (th[w].pc = "idle" /\ th[w].ret = "Ok")

\* One writer has returned Ok and the other has lost the race for the same
\* version and is about to start over.
C15_Witness ==
    \E w, u \in Threads :
        /\ th[w].pc = "idle" /\ th[w].ret = "Ok"
        /\ th[u].pc = "drop" /\ th[u].out = "AlreadyExists"
        /\ th[u].latest.version = th[w].latest.version
        /\ mainpc = "join"

\* C16: a Conflict is never spurious.  Whenever a compare_and_swap from a
\* snapshot of version K returns AlreadyExists, the file <prefix>(K+1) exists,
\* is not the caller's own temporary file, and holds the complete bytes of
\* another thread's call, whose compare_and_swap has returned Ok or is about
\* to; and, the threads being scheduled fairly, whenever a thread is inside
\* the loop some thread's compare_and_swap then returns Ok.
C16_ConflictNotSpurious ==
    /\ [](\A w \in Threads :
             (th[w].pc = "drop" /\ th[w].out = "AlreadyExists")
             => LET K == th[w].latest.version
                IN  /\ path(file, K + 1) \in DOMAIN dir
                    /\ dir[path(file, K + 1)] # th[w].tmp
                    /\ VersionFile(K + 1).by.w # w
                    /\ VersionFile(K + 1).content
                           = TransformOf(VersionFile(K + 1).by, K + 1)
                    /\ \/ \E a \in okcas : a.from = K /\ a.w # w
                                             /\ a.ino = dir[path(file, K + 1)]
                       \/ \E u \in Threads \ {w} :
                             /\ Linked(u)
                             /\ th[u].latest.version = K
                             /\ th[u].pc \in {"stat", "chmod", "drop"})
    /\ (\E w \in Threads : th[w].pc # "idle")
          ~> (\E w \in Threads : th[w].pc = "drop" /\ th[w].out = "Ok")

\* A call returns AlreadyExists for the version that the other thread's link
\* has created while reporting failure, before that thread has read its link
\* count.
C16_Witness ==
    \E w, u \in Threads :
        /\ th[w].pc = "drop" /\ th[w].out = "AlreadyExists"
        /\ th[u].pc = "stat" /\ Linked(u)
        /\ th[u].latest.version = th[w].latest.version
        /\ runs = MaxRuns

\* C17: publish ordering and no torn reads.  From the link attempt on, the
\* temporary file holds the complete candidate bytes and has been synced;
\* every version file holds the complete bytes of its publisher's transform;
\* and a thread that got version N from load() and opened it sees, before and
\* after reading, exactly those complete bytes (never a part of them, never an
\* empty file), whatever the other threads are writing meanwhile.
C17_NoTornRead ==
    /\ \A w \in Threads :
          th[w].pc \in {"link", "stat", "chmod", "drop"}
          => /\ ino[th[w].tmp].content = Candidate(th[w])
             /\ ino[th[w].tmp].synced
    /\ \A v \in Versions :
          /\ VersionFile(v).synced
          /\ VersionFile(v).content # EmptyBytes
          /\ VersionFile(v).content = TransformOf(VersionFile(v).by, v)
    /\ \A w \in Threads :
          LET N == th[w].latest.version
          IN  /\ th[w].pc = "read"
                 => /\ th[w].fd = dir[path(file, N)]
                    /\ ino[th[w].fd].content = TransformOf(ino[th[w].fd].by, N)
              /\ (th[w].pc = "op" /\ N >= 1)
                 => /\ th[w].kind = "modify"
                       => th[w].buf = TransformOf(VersionFile(N).by, N)
                    /\ th[w].kind = "modify_json"
                       => /\ th[w].val.some
                          /\ to_writer(th[w].val) = TransformOf(VersionFile(N).by, N)

\* A thread has read the whole of version 1 while another thread's temporary
\* file holds only the first part of its candidate bytes.
C17_Witness ==
    \E w, u \in Threads :
        /\ th[w].pc = "op"
        /\ th[w].latest.version = 1
        /\ th[w].kind = "modify"
        /\ Len(th[w].buf) >= 2
        /\ th[u].pc = "write"
        /\ ino[th[u].tmp].content # EmptyBytes
        /\ ino[th[u].tmp].content # Candidate(th[u])

\* The threads whose compare_and_swap has made its link and has not returned.
Publishing ==
    {w \in Threads : th[w].pc \in {"stat", "chmod", "drop"} /\ Linked(w)}

\* C18: contiguous versions.  Starting from an empty directory, the version
\* numbers that have a file are exactly 1..L, where L is the version load()
\* returns, and L is the number of compare_and_swap calls that have succeeded:
\* those that returned Ok(()) plus those whose link is made and whose return
\* of Ok(()) is still to come (none when no compare_and_swap is in progress).
C18_Contiguous ==
    LET L == latest_version(file, dir)
    IN  /\ Versions = 1..L
        /\ {parse_version(name, file.prefix) : name \in DOMAIN dir} \ {NoVersion}
               = 1..L
        /\ L = Cardinality(okcas) + Cardinality(Publishing)
        /\ \A a \in okcas : a.from + 1 \in 1..L
        /\ (\A w \in Threads : th[w].pc \notin {"link", "stat", "chmod", "drop"})
               => L = Cardinality(okcas)

\* Three versions: two calls have returned Ok and the third has made its link,
\* which reported failure, and has not read the link count yet.
C18_Witness ==
    /\ latest_version(file, dir) = 3
    /\ Cardinality(okcas) = 2
    /\ \E w \in Threads : th[w].pc = "stat" /\ Linked(w)

\* C19: absent value round trip.  When the version a modify_json call got from
\* load() was published by a modify_json call whose transform left the value
\* absent, the call hands its own transform the absent value: it does not
\* return a decode error and does not pass a present value.
C19_AbsentRoundTrip ==
    \A w \in Threads :
        LET N == th[w].latest.version
        IN  ( /\ th[w].kind = "modify_json"
              /\ N >= 1
              /\ path(file, N) \in DOMAIN dir
              /\ VersionFile(N).by.kind = "modify_json"
              /\ JsonOp(VersionFile(N).by.op,
                        IF N = 1 THEN NoneVal
                        ELSE SomeVal(from_reader(Predecessor(N)).value)) = NoneVal )
            => /\ VersionFile(N).content = to_writer(NoneVal)
               /\ ~(th[w].pc = "idle" /\ th[w].ret = "Decode")
               /\ th[w].pc = "op" => th[w].val = NoneVal

\* C20: monotonic observation.  No step lowers the version load() would
\* return; each load() of a thread returns at least the version its previous
\* load() returned, in the same call or an earlier one; and a load() that
\* starts over after AlreadyExists returns a version strictly greater than the
\* snapshot of the attempt that failed.
C20_MonotonicLoad ==
    [][/\ latest_version(file, dir') >= latest_version(file, dir)
       /\ \A w \in Threads :
            (th[w].pc = "load" /\ th'[w].pc = "open")
            => /\ th'[w].latest = load(file, dir)
               /\ th'[w].latest.version >= th[w].seen
               /\ th[w].latest # NoSnapshot
                    => th'[w].latest.version > th[w].latest.version
      ]_vars

\* A thread whose snapshot was version 1 or later is starting over after
\* AlreadyExists, and the latest version is ahead of the snapshot it used.
C20_Witness ==
    \E w \in Threads :
        /\ th[w].pc = "load"
        /\ th[w].latest # NoSnapshot
        /\ th[w].seen = th[w].latest.version
        /\ th[w].seen >= 1
        /\ latest_version(file, dir) > th[w].latest.version

====
